---- MODULE Spec2Model ----
(***************************************************************************)
(* A model of ulmld, the static linker of the ULM tool chain               *)
(* (src/ulmld.cpp, src/archive-reader.hpp, src/ulmranlib_mkindex.cpp).     *)
(*                                                                         *)
(* The link job (struct ObjectFile) is the record `job`; the operations of *)
(* Segment and ObjectFile are operators on segment and job records, named  *)
(* as in the source.  Several specifications drive them:                   *)
(*   SpecSym    units that consist of SYMTAB entries (object parser),      *)
(*   SpecLayout units with #TEXT/#DATA/#BSS contributions, then placement, *)
(*   SpecReloc  a fixed layout with fixups, then ObjectFile::link,         *)
(*   SpecFix    one object with one fixup, then ObjectFile::link,          *)
(*   SpecPatch  Segment::patchBytes on its own,                            *)
(*   SpecDriver main()'s token loop over objects, archives and groups.     *)
(***************************************************************************)
EXTENDS Integers, Sequences, FiniteSets, TLC

VARIABLES job,      \* the ObjectFile: segments, symTab, localSymTab, unresolved, fixables
          pc,       \* position of the driver / parser
          cur,      \* readSegments' locals: source, seg, baseAddr
          nunits,   \* number of units opened so far
          nlines,   \* number of input lines read so far (bounds the runs)
          hist,     \* history (ghost): what the last step processed
          drv       \* main()'s locals: argv, i, startGroup, exit code

vars == <<job, pc, cur, nunits, nlines, hist, drv>>

---------------------------------------------------------------------------
(* 64-bit unsigned integers: 8 bytes, least significant byte first.        *)

RECURSIVE Bytes(_, _)
\* the k low bytes of the integer n, two's complement for a negative n
Bytes(n, k) == IF k = 0 THEN <<>> ELSE <<n % 256>> \o Bytes(n \div 256, k - 1)

U64(n) == Bytes(n, 8)

RECURSIVE AddBytes(_, _, _)
AddBytes(a, b, c) ==
    IF a = <<>> THEN <<>>
    ELSE LET s == Head(a) + Head(b) + c
         IN  <<s % 256>> \o AddBytes(Tail(a), Tail(b), s \div 256)

RECURSIVE CarryOut(_, _, _)
CarryOut(a, b, c) ==
    IF a = <<>> THEN c
    ELSE CarryOut(Tail(a), Tail(b), (Head(a) + Head(b) + c) \div 256)

Not64(a) == [i \in 1..8 |-> 255 - a[i]]

\* a + b and a - b modulo 2^64
Add64(a, b) == AddBytes(a, b, 0)
Sub64(a, b) == AddBytes(a, Not64(b), 1)
\* a < b as unsigned numbers
Less64(a, b) == CarryOut(a, Not64(b), 1) = 0

\* unsigned a / 4 and a % 4
Div4(a) == [i \in 1..8 |-> (a[i] \div 4) + (IF i < 8 THEN (a[i + 1] % 4) * 64 ELSE 0)]
Mod4(a) == a[1] % 4

\* (a >> 16k) & 0xFFFF
Word16(a, k) == [i \in 1..8 |-> IF i <= 2 THEN a[2 * k + i] ELSE 0]

\* byte j (0 = least significant) of a after j shifts by 8; zero once shifted out
ByteAt(a, j) == IF j < 8 THEN a[j + 1] ELSE 0

---------------------------------------------------------------------------
(* struct Segment                                                          *)

Fill == 253

EmptyFn == [x \in {} |-> 0]

Put(f, k, v) == [x \in DOMAIN f \cup {k} |-> IF x = k THEN v ELSE f[x]]

NewSegment == [alignment |-> 1, baseAddr |-> 0, memory |-> EmptyFn, mark |-> EmptyFn]

size(s) == Cardinality(DOMAIN s.memory)

alignAddr(addr, alignTo) == ((addr + alignTo - 1) \div alignTo) * alignTo

\* mark[filename] of a std::map: a missing key reads as 0
MarkOf(s, filename) == IF filename \in DOMAIN s.mark THEN s.mark[filename] ELSE 0

getMark(s, filename) == s.baseAddr + MarkOf(s, filename)

isAtMark(s, filename) == MarkOf(s, filename) = size(s)

setMark(s, filename) == [s EXCEPT !.mark = Put(s.mark, filename, size(s))]

\* the assertion of advanceTo
advanceToOK(s, addr) == addr - s.baseAddr >= size(s)

\* appendByte(fill) while the target is above size (memory holds 0..size-1)
advanceTo(s, addr) ==
    LET a == addr - s.baseAddr
    IN  [s EXCEPT !.memory = [o \in DOMAIN s.memory \cup (size(s)..(a - 1)) |->
                                 IF o \in DOMAIN s.memory THEN s.memory[o] ELSE Fill]]

raiseAlignment(s, a) == IF a > s.alignment THEN [s EXCEPT !.alignment = a] ELSE s

\* both assertions met on the way through setAlignment
setAlignmentOK(s, a) ==
    /\ s.baseAddr % a = 0
    /\ advanceToOK(raiseAlignment(s, a), alignAddr(size(s), raiseAlignment(s, a).alignment))

setAlignment(s, a) ==
    LET t == raiseAlignment(s, a)
    IN  advanceTo(t, alignAddr(size(t), t.alignment))

\* variant for comparison: least significant byte at the lowest offset
patchBytesLsbFirst(s, addr, numBytes, value) ==
    LET a    == addr - s.baseAddr
        site == a..(a + numBytes - 1)
    IN  [s EXCEPT !.memory = [o \in DOMAIN s.memory \cup site |->
                                 IF o \in site THEN ByteAt(value, o - a) ELSE s.memory[o]]]

\* for (i = numBytes; i-- > 0;) { memory[addr + i] = value & 0xFF; value >>= 8; }
patchBytes(s, addr, numBytes, value) ==
    LET a    == addr - s.baseAddr
        site == a..(a + numBytes - 1)
    IN  [s EXCEPT !.memory = [o \in DOMAIN s.memory \cup site |->
                                 IF o \in site THEN ByteAt(value, numBytes - 1 - (o - a))
                                               ELSE s.memory[o]]]

requiresAdvanceTo(s, addr) == addr - s.baseAddr > size(s)

\* the bytes of hexDigits, one per offset from addr - baseAddr on
insertByteString(s, addr, bytes) ==
    LET a    == addr - s.baseAddr
        s1   == IF requiresAdvanceTo(s, a) THEN advanceTo(s, a) ELSE s
        site == a..(a + Len(bytes) - 1)
    IN  [s1 EXCEPT !.memory = [o \in DOMAIN s1.memory \cup site |->
                                  IF o \in site THEN bytes[o - a + 1] ELSE s1.memory[o]]]

setBaseAddrOK(s, b) == b % s.alignment = 0

setBaseAddr(s, b) == [s EXCEPT !.baseAddr = b]

getEndAddr(s) == s.baseAddr + size(s)

---------------------------------------------------------------------------
(* struct ObjectFile: the link job                                         *)

NewJob == [segments   |-> <<NewSegment, NewSegment, NewSegment>>,
           symTab     |-> EmptyFn,
           localSymTab |-> EmptyFn,
           unresolved |-> {},
           fixables   |-> EmptyFn,
           error      |-> "none"]

Seg(j, n) == j.segments[n + 1]
SetSeg(j, n, s) == [j EXCEPT !.segments[n + 1] = s]
\* a thrown Exception (or a failed assertion) ends the link job
Fail(j, e) == [j EXCEPT !.error = e]

\* readSegments' locals when it starts on `source`
NewCur(source) == [source |-> source, seg |-> -1, baseAddr |-> 0]

\* idents whose first character is '.'
DotIdents == {".l"}
beginsWithDot(ident) == ident \in DotIdents

\* std::isupper / std::toupper(kind) != kind on the kind letters of the model
isUpperKind(kind) == kind \in {"A", "B", "D", "T", "U"}
isLowerKind(kind) == kind \in {"b", "d", "t"}

\* "#TEXT [alignment]" (seg = 0) and "#DATA [alignment]" (seg = 1);
\* alignment = 0 stands for a directive without the number
segDirective(j, c, seg, alignment) ==
    LET s  == Seg(j, seg)
        c1 == [c EXCEPT !.seg = seg]
    IN  IF alignment > 0 /\ ~setAlignmentOK(s, alignment)
        THEN [job |-> Fail(j, "assert"), cur |-> c1]
        ELSE [job |-> SetSeg(j, seg, setMark(IF alignment > 0 THEN setAlignment(s, alignment)
                                                              ELSE s, c.source)),
              cur |-> c1]

\* "#BSS <alignment> <size>"
bssDirective(j, c, alignment, sz) ==
    LET s0 == setMark(Seg(j, 2), c.source)
        c1 == [c EXCEPT !.seg = 2]
        s1 == setAlignment(s0, alignment)
        to == sz + getMark(s1, c.source)
    IN  IF ~setAlignmentOK(s0, alignment) THEN [job |-> Fail(j, "assert"), cur |-> c1]
        ELSE IF sz = 0 THEN [job |-> SetSeg(j, 2, s1), cur |-> c1]
        ELSE IF ~advanceToOK(s1, to) THEN [job |-> Fail(SetSeg(j, 2, s1), "assert"), cur |-> c1]
        ELSE [job |-> SetSeg(j, 2, advanceTo(s1, to)), cur |-> c1]

\* the address of a byte line after "addr -= baseAddr" (explicit address only)
\* and "addr += getMark(source)"
lineAddr(j, c, hasAddr, addr) ==
    LET s      == Seg(j, c.seg)
        given  == IF hasAddr THEN addr ELSE size(s) - getMark(s, c.source)
        base   == IF isAtMark(s, c.source) THEN given ELSE c.baseAddr
        local  == IF hasAddr THEN given - base ELSE given
    IN  local + getMark(s, c.source)

\* a line of hex bytes in #TEXT or #DATA, with ("0xADDR:") or without an address.
\* Addresses are unsigned: a negative difference stands for a value near 2^64,
\* which is above every size.
byteLine(j, c, hasAddr, addr, bytes) ==
    LET s      == Seg(j, c.seg)
        atMark == isAtMark(s, c.source)
        given  == IF hasAddr THEN addr ELSE size(s) - getMark(s, c.source)
        base   == IF atMark THEN given ELSE c.baseAddr
        target == lineAddr(j, c, hasAddr, addr)
        c1     == [c EXCEPT !.baseAddr = base]
    IN  IF target < 0 \/ requiresAdvanceTo(s, target)
        THEN [job |-> Fail(j, "gap"), cur |-> c1]
        ELSE [job |-> SetSeg(j, c.seg, insertByteString(s, target, bytes)), cur |-> c1]

\* the kinds whose case label erases the ident from unresolved
eraseOnDefinition(kind) == kind \in {"T", "D", "B"}

\* the segment whose mark biases a symbol of this kind (-1: no bias)
kindSegment(kind) ==
    CASE kind \in {"T", "t"} -> 0
      [] kind \in {"D", "d"} -> 1
      [] kind \in {"B", "b"} -> 2
      [] OTHER -> -1

\* variant for comparison: a second definition silently replaces the first
multipleDefinitionNever(j, ident) == FALSE
multipleDefinition(j, ident) == ident \in DOMAIN j.symTab

undefinedIsNew(j, ident) ==
    ident \notin DOMAIN j.symTab \/ ~isUpperKind(j.symTab[ident].kind)

\* one line "<kind> <ident> <hex-value>" of #SYMTAB; value is a U64
symtabEntry(j, c, kind, ident, value) ==
    LET j1 == IF eraseOnDefinition(kind)
              THEN [j EXCEPT !.unresolved = @ \ {ident}] ELSE j
        v  == IF kindSegment(kind) >= 0
              THEN Add64(value, U64(getMark(Seg(j, kindSegment(kind)), c.source)))
              ELSE value
        e  == [kind |-> kind, value |-> v]
    IN  IF kind = "U"
        THEN IF undefinedIsNew(j1, ident)
             THEN [j1 EXCEPT !.unresolved = @ \cup {ident}] ELSE j1
        ELSE IF beginsWithDot(ident) THEN j1
        ELSE IF isLowerKind(kind)
        THEN [j1 EXCEPT !.localSymTab =
                 Put(@, ident, (IF ident \in DOMAIN @ THEN @[ident] ELSE <<>>) \o <<e>>)]
        ELSE IF multipleDefinition(j1, ident) THEN Fail(j1, "multiple definition")
        ELSE [j1 EXCEPT !.symTab = Put(@, ident, e)]

Pseudo == {"[text]", "[data]", "[bss]"}

pseudoSegment(ident) ==
    CASE ident = "[text]" -> 0
      [] ident = "[data]" -> 1
      [] ident = "[bss]"  -> 2
      [] OTHER -> -1

\* one line of #FIXUPS: "<segment> <addr> <offset bits> <width bits> <kind> <ident[+-n]>";
\* ident and displace are the two halves of the last field
fixupEntry(j, c, segment, address, offsetBits, numBits, kind, ident, displace) ==
    LET fixInSeg == IF segment = "text" THEN 0 ELSE 1
        d  == IF pseudoSegment(ident) >= 0
              THEN displace + getMark(Seg(j, pseudoSegment(ident)), c.source)
              ELSE displace
        fe == [segment  |-> segment,
               kind     |-> kind,
               addr     |-> address + getMark(Seg(j, fixInSeg), c.source),
               offset   |-> offsetBits \div 8,
               numBytes |-> numBits \div 8,
               displace |-> U64(d)]
    IN  IF offsetBits % 8 # 0 \/ numBits % 4 # 0 THEN Fail(j, "assert")
        ELSE [j EXCEPT !.fixables =
                 Put(@, ident, (IF ident \in DOMAIN @ THEN @[ident] ELSE <<>>) \o <<fe>>)]

---------------------------------------------------------------------------
(* ObjectFile::readSegments on a whole unit.  A line is a record with the  *)
(* field t: "TEXT", "DATA", "BSS", "SYMTAB", "FIXUPS", "bytes", "sym",     *)
(* "fix", and the fields of that kind of line.                             *)

Directives == {"TEXT", "DATA", "BSS", "SYMTAB", "FIXUPS"}

\* one turn of the getline loop; r is [job, cur]
readLine(r, line) ==
    CASE line.t = "TEXT"   -> segDirective(r.job, r.cur, 0, line.align)
      [] line.t = "DATA"   -> segDirective(r.job, r.cur, 1, line.align)
      [] line.t = "BSS"    -> bssDirective(r.job, r.cur, line.align, line.size)
      [] line.t = "SYMTAB" -> [r EXCEPT !.cur.seg = 3]
      [] line.t = "FIXUPS" -> [r EXCEPT !.cur.seg = 4]
      [] line.t = "bytes" /\ r.cur.seg \in {0, 1} ->
            byteLine(r.job, r.cur, line.hasAddr, line.addr, line.bytes)
      [] line.t = "sym" /\ r.cur.seg = 3 ->
            [r EXCEPT !.job = symtabEntry(r.job, r.cur, line.kind, line.ident, line.value)]
      [] line.t = "fix" /\ r.cur.seg = 4 ->
            [r EXCEPT !.job = fixupEntry(r.job, r.cur, line.segment, line.addr, line.offsetBits,
                                         line.numBits, line.kind, line.ident, line.displace)]
      [] OTHER -> r

RECURSIVE readLines(_, _)
readLines(r, lines) ==
    IF lines = <<>> \/ r.job.error # "none" THEN r
    ELSE readLines(readLine(r, Head(lines)), Tail(lines))

\* a stream that cannot be read, or whose first character is not '#', is
\* "not an object file"
readSegments(j, source, lines) ==
    IF lines = <<>> \/ Head(lines).t \notin Directives THEN Fail(j, "not an object file")
    ELSE readLines([job |-> j, cur |-> NewCur(source)], lines).job

TextLine(a) == [t |-> "TEXT", align |-> a]
DataLine(a) == [t |-> "DATA", align |-> a]
BssLine(a, n) == [t |-> "BSS", align |-> a, size |-> n]
SymtabLine == [t |-> "SYMTAB"]
FixupsLine == [t |-> "FIXUPS"]
Bytes4 == [t |-> "bytes", hasAddr |-> FALSE, addr |-> 0, bytes |-> <<17, 34, 51, 68>>]
SymLine(k, id, v) == [t |-> "sym", kind |-> k, ident |-> id, value |-> v]
FixLine(s, a, o, n, k, id, d) ==
    [t |-> "fix", segment |-> s, addr |-> a, offsetBits |-> o, numBits |-> n, kind |-> k,
     ident |-> id, displace |-> d]

---------------------------------------------------------------------------
(* ObjectFile::link                                                        *)

\* the keys of the model's idents in the order of std::map<std::string, ...>
IdentOrder == <<".l", "[bss]", "[data]", "[text]", "c", "f", "g", "h", "k", "main">>

RECURSIVE SelectIn(_, _)
\* the members of the sequence q that are in the set S, in q's order
SelectIn(q, S) ==
    IF q = <<>> THEN <<>>
    ELSE (IF Head(q) \in S THEN <<Head(q)>> ELSE <<>>) \o SelectIn(Tail(q), S)

symbolKindOK(kind) == kind \in {"T", "D", "B", "A"}

\* the base a symbol of this kind is moved by: "e.second += textAddr" ...
symbolBase(j, kind) ==
    CASE kind = "T" -> Seg(j, 0).baseAddr
      [] kind = "D" -> Seg(j, 1).baseAddr
      [] kind = "B" -> Seg(j, 2).baseAddr
      [] OTHER -> 0

\* "auto dataAddr = alignAddr(segments[0].getEndAddr(), segments[1].alignment)"
dataAddr(j) == alignAddr(getEndAddr(Seg(j, 0)), Seg(j, 1).alignment)

\* variant for comparison: bss is placed behind text, where data already is
bssAddrBehindText(j) == alignAddr(getEndAddr(Seg(j, 0)), Seg(j, 2).alignment)
\* "auto bssAddr = alignAddr(segments[1].getEndAddr(), segments[2].alignment)"
bssAddr(j) == alignAddr(getEndAddr(Seg(j, 1)), Seg(j, 2).alignment)

\* the first half of link(): data and bss are placed behind text, text is
\* padded up to data, and the global symbols are made absolute
place(j) ==
    LET j1       == SetSeg(j, 1, setBaseAddr(Seg(j, 1), dataAddr(j)))
        j2       == SetSeg(j1, 0, advanceTo(Seg(j1, 0), dataAddr(j)))
        j3       == SetSeg(j2, 2, setBaseAddr(Seg(j2, 2), bssAddr(j2)))
        moved    == [ident \in DOMAIN j3.symTab |->
                        [j3.symTab[ident] EXCEPT
                            !.value = Add64(@, U64(symbolBase(j3, j3.symTab[ident].kind)))]]
    IN  IF ~setBaseAddrOK(Seg(j, 1), dataAddr(j)) THEN Fail(j, "assert")
        ELSE IF ~advanceToOK(Seg(j1, 0), dataAddr(j)) THEN Fail(j1, "assert")
        ELSE IF ~setBaseAddrOK(Seg(j2, 2), bssAddr(j2)) THEN Fail(j2, "assert")
        ELSE IF \E ident \in DOMAIN j3.symTab : ~symbolKindOK(j3.symTab[ident].kind)
        THEN Fail([j3 EXCEPT !.symTab = moved], "symbol kind")
        ELSE [j3 EXCEPT !.symTab = moved]

fixSegment(fe) ==
    CASE fe.segment = "text" -> 0
      [] fe.segment = "data" -> 1
      [] OTHER -> -1

FixKinds == {"relative", "absolute", "w0", "w1", "w2", "w3"}

\* the site of a fixup: fixEntry.addr + textAddr (or dataAddr)
fixSite(j, fe) == fe.addr + Seg(j, fixSegment(fe)).baseAddr

\* variant for comparison: an ident that was referenced with U counts as known
resolvesOrReferenced(j, ident) ==
    ident \in Pseudo \/ ident \in DOMAIN j.symTab \/ ident \in j.unresolved
\* ident == "[text]" ... || symTab.count(ident)
resolves(j, ident) == ident \in Pseudo \/ ident \in DOMAIN j.symTab

\* the target address: displace + segment base, or displace + symbol value
fixTarget(j, ident, fe) ==
    IF ident \in Pseudo
    THEN Add64(fe.displace, U64(Seg(j, pseudoSegment(ident)).baseAddr))
    ELSE Add64(fe.displace, IF ident \in DOMAIN j.symTab THEN j.symTab[ident].value ELSE U64(0))

\* the value handed to patchBytes for a fixup that raises no error
fixValue(j, ident, fe) ==
    LET V == fixTarget(j, ident, fe)
    IN  CASE fe.kind = "relative" -> Div4(Sub64(V, U64(fixSite(j, fe))))
          [] fe.kind = "w0" -> Word16(V, 0)
          [] fe.kind = "w1" -> Word16(V, 1)
          [] fe.kind = "w2" -> Word16(V, 2)
          [] fe.kind = "w3" -> Word16(V, 3)
          [] OTHER -> V

\* the exception one fixup raises, in the order of the checks ("none": it is applied)
fixError(j, ident, fe) ==
    IF fixSegment(fe) < 0 THEN "fix segment"
    ELSE IF ~resolves(j, ident) THEN "unresolved symbol"
    ELSE IF fe.kind = "relative" /\ Mod4(Sub64(fixTarget(j, ident, fe), U64(fixSite(j, fe)))) # 0
    THEN "not a multiple of 4"
    ELSE IF fe.kind \notin FixKinds THEN "fix kind"
    ELSE "none"

applyFix(j, ident, fe) ==
    IF fixError(j, ident, fe) # "none" THEN Fail(j, fixError(j, ident, fe))
    ELSE SetSeg(j, fixSegment(fe),
                patchBytes(Seg(j, fixSegment(fe)), fixSite(j, fe) + fe.offset, fe.numBytes,
                           fixValue(j, ident, fe)))

RECURSIVE applyFixes(_, _, _)
\* the inner loop: the fix entries of one ident, in the order they were read
applyFixes(j, ident, fes) ==
    IF fes = <<>> \/ j.error # "none" THEN j
    ELSE applyFixes(applyFix(j, ident, Head(fes)), ident, Tail(fes))

RECURSIVE relocateFrom(_, _)
\* the outer loop over the idents of fixables
relocateFrom(j, idents) ==
    IF idents = <<>> \/ j.error # "none" THEN j
    ELSE relocateFrom(applyFixes(j, Head(idents), j.fixables[Head(idents)]), Tail(idents))

\* the second half of link(): "resolve fixables"
relocate(j) == relocateFrom(j, SelectIn(IdentOrder, DOMAIN j.fixables))

link(j) == IF place(j).error # "none" THEN place(j) ELSE relocate(place(j))

---------------------------------------------------------------------------
(* Common parts of the specifications                                      *)

MaxUnits == 2
MaxSyms == 3

\* the names readSegments is given for the loose objects of a run
UnitNames == <<"a.o", "b.o", "c.o", "d.o">>

\* startGroup = -1: the std::optional holds no value; exit = -1: main has not returned
NoDrv == [argv |-> <<>>, i |-> 0, startGroup |-> -1, startAddr |-> 0, exit |-> -1,
          error |-> "none"]
NoHist == [op |-> "none"]

\* an exception propagates to the catch in main()
After(j, next) == IF j.error # "none" THEN "failed" ELSE next

---------------------------------------------------------------------------
(* SpecSym: units made of a text contribution and SYMTAB entries           *)

SymIdents == {"f", "g", ".l"}
SymKinds == {"T", "D", "B", "A", "U", "t", "d", "b"}
SymValues == {0, 4}
Word == <<17, 34, 51, 68>>

InitSym ==
    /\ job = NewJob
    /\ pc = "idle"
    /\ cur = NewCur("")
    /\ nunits = 0
    /\ nlines = 0
    /\ hist = NoHist
    /\ drv = NoDrv

\* readSegments starts on the next object: "#TEXT", one word of text, "#SYMTAB"
SymOpen ==
    /\ pc = "idle"
    /\ nunits < MaxUnits
    /\ LET c  == NewCur(UnitNames[nunits + 1])
           r  == segDirective(job, c, 0, 0)
           r2 == byteLine(r.job, r.cur, FALSE, 0, Word)
       IN  /\ job' = r2.job
           /\ cur' = [r2.cur EXCEPT !.seg = 3]
    /\ pc' = "symtab"
    /\ nunits' = nunits + 1
    /\ hist' = [op |-> "open"]
    /\ UNCHANGED <<nlines, drv>>

\* one "<kind> <ident> <value>" line of the unit's #SYMTAB
SymEntry ==
    /\ pc = "symtab"
    /\ nlines < MaxSyms
    /\ \E kind \in SymKinds, ident \in SymIdents, value \in SymValues :
          /\ job' = symtabEntry(job, cur, kind, ident, U64(value))
          /\ hist' = [op |-> "sym", kind |-> kind, ident |-> ident]
    /\ pc' = After(job', "symtab")
    /\ nlines' = nlines + 1
    /\ UNCHANGED <<cur, nunits, drv>>

\* end of the unit's input
SymClose ==
    /\ pc = "symtab"
    /\ pc' = "idle"
    /\ hist' = [op |-> "close"]
    /\ UNCHANGED <<job, cur, nunits, nlines, drv>>

NextSym == SymOpen \/ SymEntry \/ SymClose

SpecSym == InitSym /\ [][NextSym]_vars

\* C1: after every SYMTAB entry no ident is both in the unresolved set and
\* defined in the global symbol table.
C1_UnresolvedNotDefined ==
    job.unresolved \cap DOMAIN job.symTab = {}

\* C2: the global table holds at most one definition per ident: a SYMTAB entry
\* never changes an existing entry, and an upper-case definition of an ident
\* already in the table ends the job with the multiple-definition error.
C2_OneDefinition ==
    [][hist'.op = "sym" =>
         /\ \A id \in DOMAIN job.symTab :
               id \in DOMAIN job'.symTab /\ job'.symTab[id] = job.symTab[id]
         /\ (hist'.kind \in {"T", "D", "B", "A"} /\ hist'.ident \in DOMAIN job.symTab)
               => (job'.error = "multiple definition" /\ pc' = "failed")
         /\ hist'.kind = "U" => job'.symTab = job.symTab]_vars

\* a second upper-case definition was read and refused, the first one kept
C2_Witness ==
    /\ hist.op = "sym" /\ hist.kind \in {"T", "D", "B", "A"}
    /\ hist.ident \in DOMAIN job.symTab
    /\ job.symTab[hist.ident].kind # hist.kind
    /\ job.error = "multiple definition"

---------------------------------------------------------------------------
(* link() as two steps of a run: placement, then the fixup loop            *)

Place ==
    /\ pc = "parsed"
    /\ job' = place(job)
    /\ pc' = IF job'.error # "none" THEN "done" ELSE "placed"
    /\ hist' = [hist EXCEPT !.op = "place"]
    /\ UNCHANGED <<cur, nunits, nlines, drv>>

Relocate ==
    /\ pc = "placed"
    /\ job' = relocate(job)
    /\ pc' = "done"
    /\ hist' = [hist EXCEPT !.op = "relocate"]
    /\ UNCHANGED <<cur, nunits, nlines, drv>>

---------------------------------------------------------------------------
(* SpecLayout: units with #TEXT, #DATA and #BSS contributions and global   *)
(* symbols, read line by line, then the placement of link()                *)

MaxLayLines == 5

TextAligns == {0, 8}
DataAligns == {8}
BssAligns == {1, 8}
BssSizes == {3, 8}
LayBytes == {Word}
LayKinds == {"T", "D", "B", "A"}
LayIdents == {"f", "main"}
LayValues == {0, 4}

NoBegin == <<-1, -1, -1>>

\* the offset at which a contribution begins that enters segment s with this
\* alignment (0: none given): the aligned end of what the segment holds
ContributionStart(s, alignment) ==
    IF alignment > 0 THEN alignAddr(size(s), raiseAlignment(s, alignment).alignment)
    ELSE size(s)

InitLayout ==
    /\ job = NewJob
    /\ pc = "idle"
    /\ cur = NewCur("")
    /\ nunits = 0
    /\ nlines = 0
    /\ hist = [op |-> "none", begin |-> NoBegin, defs |-> EmptyFn]
    /\ drv = NoDrv

\* readSegments starts on the next object
LayOpen ==
    /\ pc = "idle"
    /\ nunits < MaxUnits
    /\ pc' = "segs"
    /\ cur' = NewCur(UnitNames[nunits + 1])
    /\ nunits' = nunits + 1
    /\ UNCHANGED <<job, nlines, hist, drv>>

\* "#TEXT [alignment]" or "#DATA [alignment]", once per unit and segment
LayDirective ==
    /\ pc = "segs"
    /\ nlines < MaxLayLines
    /\ \E seg \in {0, 1} : \E a \in (IF seg = 0 THEN TextAligns ELSE DataAligns) :
          /\ hist.begin[seg + 1] < 0
          /\ job' = segDirective(job, cur, seg, a).job
          /\ cur' = segDirective(job, cur, seg, a).cur
          /\ hist' = [hist EXCEPT
                                  !.begin[seg + 1] = ContributionStart(Seg(job, seg), a)]
    /\ pc' = After(job', "segs")
    /\ nlines' = nlines + 1
    /\ UNCHANGED <<nunits, drv>>

\* "#BSS <alignment> <size>", once per unit
LayBss ==
    /\ pc = "segs"
    /\ nlines < MaxLayLines
    /\ hist.begin[3] < 0
    /\ \E a \in BssAligns, sz \in BssSizes :
          /\ job' = bssDirective(job, cur, a, sz).job
          /\ cur' = bssDirective(job, cur, a, sz).cur
          /\ hist' = [hist EXCEPT !.begin[3] = ContributionStart(Seg(job, 2), a)]
    /\ pc' = After(job', "segs")
    /\ nlines' = nlines + 1
    /\ UNCHANGED <<nunits, drv>>

\* a line of hex bytes in the current text or data contribution
LayByteLine ==
    /\ pc = "segs"
    /\ cur.seg \in {0, 1}
    /\ nlines < MaxLayLines
    /\ \E bytes \in LayBytes :
          /\ job' = byteLine(job, cur, FALSE, 0, bytes).job
          /\ cur' = byteLine(job, cur, FALSE, 0, bytes).cur
    /\ pc' = After(job', "segs")
    /\ nlines' = nlines + 1
    /\ UNCHANGED hist
    /\ UNCHANGED <<nunits, drv>>

\* "#SYMTAB"
LaySymtab ==
    /\ pc = "segs"
    /\ pc' = "symtab"
    /\ cur' = readLine([job |-> job, cur |-> cur], SymtabLine).cur
    /\ UNCHANGED hist
    /\ UNCHANGED <<job, nunits, nlines, drv>>

\* a global definition in a segment the unit contributes to (or absolute);
\* defs keeps what the unit said: kind, unit-local value, begin of its contribution
LaySym ==
    /\ pc = "symtab"
    /\ nlines < MaxLayLines
    /\ \E kind \in LayKinds, ident \in LayIdents, value \in LayValues :
          /\ kindSegment(kind) >= 0 => hist.begin[kindSegment(kind) + 1] >= 0
          /\ job' = symtabEntry(job, cur, kind, ident, U64(value))
          /\ hist' = [hist EXCEPT
                        !.defs = IF job'.error # "none" THEN @
                                 ELSE Put(@, ident,
                                          [kind |-> kind, value |-> value,
                                           begin |-> IF kindSegment(kind) >= 0
                                                     THEN hist.begin[kindSegment(kind) + 1]
                                                     ELSE 0])]
    /\ pc' = After(job', "symtab")
    /\ nlines' = nlines + 1
    /\ UNCHANGED <<cur, nunits, drv>>

\* end of the unit's input: readSegments returns
LayClose ==
    /\ pc \in {"segs", "symtab"}
    /\ pc' = "idle"
    /\ cur' = NewCur("")
    /\ hist' = [hist EXCEPT !.begin = NoBegin]
    /\ UNCHANGED <<job, nunits, nlines, drv>>

\* no more input files: main() goes on to link()
LayEnd ==
    /\ pc = "idle"
    /\ nunits > 0
    /\ pc' = "parsed"
    /\ UNCHANGED hist
    /\ UNCHANGED <<job, cur, nunits, nlines, drv>>

NextLayout ==
    \/ LayOpen \/ LayDirective \/ LayBss \/ LayByteLine \/ LaySymtab \/ LaySym
    \/ LayClose \/ LayEnd \/ Place

SpecLayout == InitLayout /\ [][NextLayout]_vars

Placed == pc = "placed"

\* what the claim gives a symbol that a unit defined as d
ExpectedSymbol(d) ==
    IF d.kind = "A" THEN U64(d.value)
    ELSE U64(Seg(job, kindSegment(d.kind)).baseAddr + d.begin + d.value)

\* C6: after placement a global T, D or B symbol has the value baseAddr of
\* its segment + offset at which the defining unit's contribution begins +
\* unit-local value, and an A symbol has its parsed value.
C6_SymbolValues ==
    Placed => \A id \in DOMAIN job.symTab : job.symTab[id].value = ExpectedSymbol(hist.defs[id])

\* the same for the symbols of kind T, D and A
SymbolValuesTextData ==
    Placed => \A id \in DOMAIN job.symTab :
                 job.symTab[id].kind # "B" => job.symTab[id].value = ExpectedSymbol(hist.defs[id])

\* main in a.o, f in b.o behind one word of text
SymbolValuesExample ==
    /\ Placed /\ nunits = 2
    /\ DOMAIN job.symTab = {"f", "main"}
    /\ job.symTab["main"] = [kind |-> "T", value |-> U64(0)]
    /\ job.symTab["f"] = [kind |-> "T", value |-> U64(4)]

\* C10: after placement text.base <= text.end <= data.base <= data.end <=
\* bss.base <= bss.end, and every baseAddr is a multiple of the segment's
\* alignment.
C10_PlacementOrder ==
    Placed =>
        /\ Seg(job, 0).baseAddr <= getEndAddr(Seg(job, 0))
        /\ getEndAddr(Seg(job, 0)) <= Seg(job, 1).baseAddr
        /\ Seg(job, 1).baseAddr <= getEndAddr(Seg(job, 1))
        /\ getEndAddr(Seg(job, 1)) <= Seg(job, 2).baseAddr
        /\ Seg(job, 2).baseAddr <= getEndAddr(Seg(job, 2))
        /\ \A n \in 0..2 : Seg(job, n).baseAddr % Seg(job, n).alignment = 0

\* two units placed: text padded up to data at 8, data of one word, bss
\* aligned to 8 behind it
C10_Witness ==
    /\ Placed /\ nunits = 2
    /\ size(Seg(job, 0)) = 8 /\ Seg(job, 0).memory[7] = Fill
    /\ Seg(job, 1).baseAddr = 8 /\ Seg(job, 1).alignment = 8 /\ size(Seg(job, 1)) = 4
    /\ Seg(job, 2).baseAddr = 16 /\ Seg(job, 2).alignment = 8 /\ size(Seg(job, 2)) > 0

\* the step that reads a unit's "#BSS <alignment> <size>" with these numbers
BssStep(a, sz) ==
    /\ pc = "segs" /\ hist.begin[3] < 0 /\ hist'.begin[3] >= 0
    /\ job' = bssDirective(job, cur, a, sz).job

\* C16: a unit's "#BSS <alignment> <size>" that is read without an error puts
\* the unit's bss mark at the bss size before the directive rounded up to the
\* segment's alignment after the directive, and leaves the bss size at that
\* mark + size.
C16_BssReservation ==
    [][\A a \in BssAligns, sz \in BssSizes :
          (BssStep(a, sz) /\ job'.error = "none") =>
              /\ MarkOf(Seg(job', 2), cur.source) = ContributionStart(Seg(job, 2), a)
              /\ size(Seg(job', 2)) = ContributionStart(Seg(job, 2), a) + sz]_vars

\* the same for a directive read when the bss size is a multiple of the
\* segment's alignment after the directive (the first unit's among them)
BssReservationAligned ==
    [][\A a \in BssAligns, sz \in BssSizes :
          (/\ BssStep(a, sz) /\ job'.error = "none"
           /\ ContributionStart(Seg(job, 2), a) = size(Seg(job, 2))) =>
              /\ MarkOf(Seg(job', 2), cur.source) = size(Seg(job, 2))
              /\ size(Seg(job', 2)) = size(Seg(job, 2)) + sz]_vars

\* a.o with "#BSS 1 3", then b.o with "#BSS 8 8": b.o's mark is 3 and the
\* segment ends at 11
BssMarkUnaligned ==
    /\ pc = "segs" /\ nunits = 2 /\ job.error = "none"
    /\ Seg(job, 2).alignment = 8
    /\ MarkOf(Seg(job, 2), UnitNames[1]) = 0
    /\ MarkOf(Seg(job, 2), UnitNames[2]) = 3
    /\ size(Seg(job, 2)) = 11

\* C17: no assertion fails while well-formed units are read and placed (the
\* alignments are powers of two): every advanceTo is called with a target at
\* or above the end of the segment.
C17_AdvanceToPrecondition == job.error # "assert"

\* the same while the first unit is read, and in placement
AdvanceToFirstUnit == (nunits <= 1 \/ pc \in {"parsed", "placed", "done"}) => job.error # "assert"

\* a.o with "#BSS 1 3", then b.o with "#BSS 8 3": advanceTo(6) on 8 bytes
BssAssertFails ==
    /\ job.error = "assert" /\ nunits = 2 /\ cur.seg = 2
    /\ MarkOf(Seg(job, 2), UnitNames[2]) = 3
    /\ size(Seg(job, 2)) = 8

---------------------------------------------------------------------------
(* SpecBytes: units whose #TEXT and #DATA contributions are lines of hex   *)
(* bytes, with and without an explicit address                             *)

MaxByteLines == 5

ByteAddrs == {4096, 4100}
OtherWord == <<85, 102, 119, 136>>
ByteStrings == {Word, OtherWord}

InitBytes ==
    /\ job = NewJob
    /\ pc = "idle"
    /\ cur = NewCur("")
    /\ nunits = 0
    /\ nlines = 0
    /\ hist = NoHist
    /\ drv = NoDrv

\* readSegments starts on the next object
BytesOpen ==
    /\ pc = "idle"
    /\ nunits < MaxUnits
    /\ pc' = "segs"
    /\ cur' = NewCur(UnitNames[nunits + 1])
    /\ nunits' = nunits + 1
    /\ hist' = [op |-> "open"]
    /\ UNCHANGED <<job, nlines, drv>>

\* "#TEXT [alignment]" or "#DATA [alignment]"
BytesDirective ==
    /\ pc = "segs"
    /\ nlines < MaxByteLines
    /\ \E seg \in {0, 1}, a \in TextAligns :
          /\ seg # cur.seg
          /\ job' = segDirective(job, cur, seg, a).job
          /\ cur' = segDirective(job, cur, seg, a).cur
    /\ pc' = After(job', "segs")
    /\ nlines' = nlines + 1
    /\ hist' = [op |-> "directive"]
    /\ UNCHANGED <<nunits, drv>>

\* a line of hex bytes, "0xADDR: ..." or without the address
BytesLine ==
    /\ pc = "segs"
    /\ cur.seg \in {0, 1}
    /\ nlines < MaxByteLines
    /\ \E hasAddr \in BOOLEAN, addr \in ByteAddrs, bytes \in ByteStrings :
          /\ ~hasAddr => addr = 4096
          /\ job' = byteLine(job, cur, hasAddr, addr, bytes).job
          /\ cur' = byteLine(job, cur, hasAddr, addr, bytes).cur
          /\ hist' = [op |-> "bytes",
                       below |-> lineAddr(job, cur, hasAddr, addr) < size(Seg(job, cur.seg)),
                       above |-> lineAddr(job, cur, hasAddr, addr) > size(Seg(job, cur.seg))]
    /\ pc' = After(job', "segs")
    /\ nlines' = nlines + 1
    /\ UNCHANGED <<nunits, drv>>

\* end of the unit's input: readSegments returns
BytesClose ==
    /\ pc = "segs"
    /\ pc' = "idle"
    /\ cur' = NewCur("")
    /\ hist' = [op |-> "close"]
    /\ UNCHANGED <<job, nunits, nlines, drv>>

NextBytes == BytesOpen \/ BytesDirective \/ BytesLine \/ BytesClose

SpecBytes == InitBytes /\ [][NextBytes]_vars

\* every byte the segments hold before the step is the same after it
StoredBytesKept ==
    \A n \in 0..1 : \A o \in DOMAIN Seg(job, n).memory :
        o \in DOMAIN Seg(job', n).memory /\ Seg(job', n).memory[o] = Seg(job, n).memory[o]

\* C18: a byte line whose translated address lies below the size of its
\* segment ends the run with an error, and no step of parsing changes a byte
\* that a segment already holds.
C18_BackwardWriteFatal ==
    [][/\ (hist'.op = "bytes" /\ hist'.below) => job'.error # "none"
       /\ StoredBytesKept]_vars

\* a byte line whose translated address lies above the size of its segment is
\* fatal, and a line at the size of its segment keeps every stored byte
ForwardGapFatal ==
    [][/\ (hist'.op = "bytes" /\ hist'.above) => job'.error = "gap"
       /\ (hist'.op = "bytes" /\ ~hist'.below) => StoredBytesKept
       /\ hist'.op # "bytes" => StoredBytesKept]_vars

\* b.o begins at 0x1004 and then writes at 0x1000: the word of a.o is replaced
EarlierUnitOverwritten ==
    /\ nunits = 2 /\ job.error = "none" /\ hist.op = "bytes" /\ hist.below
    /\ MarkOf(Seg(job, 0), UnitNames[2]) = 4
    /\ size(Seg(job, 0)) = 8
    /\ \A o \in 0..3 : Seg(job, 0).memory[o] = OtherWord[o + 1]
    /\ \A o \in 4..7 : Seg(job, 0).memory[o] = Word[o - 3]

---------------------------------------------------------------------------
(* SpecDriver: main()'s loop over the tokens of the command line, with     *)
(* addLibOrObject on the files of a small file system                      *)

MaxArgs == 5

IndexLine(k, id, m) == [kind |-> k, ident |-> id, member |-> m]
Member(n, src, lines) == [name |-> n, source |-> src, lines |-> lines]

\* loose object: main, calls f
ObjectA ==
    <<TextLine(0), Bytes4, SymtabLine, SymLine("T", "main", U64(0)), SymLine("U", "f", U64(0))>>

\* members of the archives; a member's source is "<file>(<member>)"
DefinesOnly(id) == <<TextLine(0), Bytes4, SymtabLine, SymLine("T", id, U64(0))>>
DefinesAndCalls(id, callee) ==
    <<TextLine(0), Bytes4, SymtabLine, SymLine("T", id, U64(0)), SymLine("U", callee, U64(0))>>
LocalLabelOnly == <<SymtabLine, SymLine("T", ".l", U64(0))>>
\* references to a local label and to the absolute symbol c
CallsLocalLabel == <<SymtabLine, SymLine("U", ".l", U64(0)), SymLine("U", "c", U64(0))>>
AbsoluteOnly(id) == <<SymtabLine, SymLine("A", id, U64(16))>>

\* the archives: hasIndex says whether there is a member __SYMTAB_INDEX, index
\* holds its lines, members the other members in the order of the archive file
Archives ==
    [a \in {"libx.a", "X.a", "Y.a", "Z.a", "W.a", "V.a"} |->
       CASE a = "libx.a" ->
              [hasIndex |-> TRUE,
               index    |-> <<IndexLine("T", "f", "m1.o"), IndexLine("T", "g", "m2.o"),
                              IndexLine("A", "c", "m3.o")>>,
               members  |-> <<Member("m1.o", "libx.a(m1.o)", DefinesOnly("f")),
                              Member("m2.o", "libx.a(m2.o)", DefinesOnly("g")),
                              Member("m3.o", "libx.a(m3.o)", AbsoluteOnly("c"))>>]
         [] a = "X.a" ->
              [hasIndex |-> TRUE,
               index    |-> <<IndexLine("T", "f", "x1.o"), IndexLine("T", ".l", "x2.o")>>,
               members  |-> <<Member("x1.o", "X.a(x1.o)", DefinesAndCalls("f", "g")),
                              Member("x2.o", "X.a(x2.o)", LocalLabelOnly)>>]
         [] a = "Y.a" ->
              [hasIndex |-> TRUE,
               index    |-> <<IndexLine("T", "g", "y1.o")>>,
               members  |-> <<Member("y1.o", "Y.a(y1.o)", DefinesAndCalls("g", "f"))>>]
         [] a = "Z.a" ->
              [hasIndex |-> FALSE, index |-> <<>>,
               members  |-> <<Member("z1.o", "Z.a(z1.o)", LocalLabelOnly)>>]
         [] a = "W.a" ->
              [hasIndex |-> FALSE, index |-> <<>>,
               members  |-> <<Member("w1.o", "W.a(w1.o)", CallsLocalLabel)>>]
         [] OTHER ->
              [hasIndex |-> FALSE, index |-> <<>>,
               members  |-> <<Member("v2.o", "V.a(v2.o)", DefinesOnly("k")),
                              Member("v1.o", "V.a(v1.o)", DefinesOnly("h"))>>]]

\* the member names of the model in the order of std::map<std::string, member>
NameOrder == <<"m1.o", "m2.o", "m3.o", "v1.o", "v2.o", "w1.o", "x1.o", "x2.o", "y1.o", "z1.o">>

RECURSIVE membersNamed(_, _)
\* the members of ar with the names of the sequence, in that order
membersNamed(ar, names) ==
    IF names = <<>> THEN <<>>
    ELSE LET K == {k \in 1..Len(ar.members) : ar.members[k].name = Head(names)}
         IN  (IF K = {} THEN <<>> ELSE <<ar.members[CHOOSE k \in K : TRUE]>>)
                \o membersNamed(ar, Tail(names))

\* what begin() .. end() of the archive reader yields: the directory, a map
\* keyed by member name
directory(ar) == membersNamed(ar, NameOrder)

Objects == [o \in {"a.o"} |-> ObjectA]

GroupTokens == {"-(", "-)"}
Tokens == DOMAIN Objects \cup DOMAIN Archives \cup GroupTokens

\* the words that follow "-textseg" in the command lines of the model, and what
\* "in >> std::hex >> startAddr" reads from them (0x1000; 0xa from "a.o")
TextsegArgs == {"1000", "a.o"}
hexValue(word) == IF word = "1000" THEN 4096 ELSE 10

\* archive.open(file) succeeds
isArchive(file) == file \in DOMAIN Archives

\* in.open(member): the lines of the member, none if there is no such member
memberLines(ar, name) ==
    LET K == {k \in 1..Len(ar.members) : ar.members[k].name = name}
    IN  IF K = {} THEN <<>> ELSE ar.members[CHOOSE k \in K : TRUE].lines

memberSource(file, name) ==
    LET ar == Archives[file]
        K  == {k \in 1..Len(ar.members) : ar.members[k].name = name}
    IN  IF K = {} THEN file ELSE ar.members[CHOOSE k \in K : TRUE].source

\* variant for comparison: the member of the first index line, unresolved or not
readSymtabIndexFirstLine(j, lines) == IF lines = <<>> THEN "" ELSE Head(lines).member

RECURSIVE readSymtabIndex(_, _)
\* the member of the first line whose ident is unresolved ("": std::nullopt)
readSymtabIndex(j, lines) ==
    IF lines = <<>> THEN ""
    ELSE IF Head(lines).ident \in j.unresolved THEN Head(lines).member
    ELSE readSymtabIndex(j, Tail(lines))

\* the state of a call of addLibOrObject: the job, the return value, and
\* (history) the archive members handed to readSegments with the unresolved
\* set of that moment
Parsed(r, file, name) ==
    r.parsed \cup {[file |-> file, member |-> name, unresolved |-> r.job.unresolved]}

\* (history) the calls of addLibOrObject of the step, each with the members
\* it handed to readSegments, in that order
Called(r, name) == [r.calls EXCEPT ![Len(r.calls)].members = Append(@, name)]

RECURSIVE indexLoop(_, _)
\* while (1) { if (auto member = readSymtabIndex(in)) { ...; continue; } break; }
indexLoop(r, file) ==
    LET name == readSymtabIndex(r.job, Archives[file].index)
    IN  IF r.job.error # "none" \/ name = "" THEN r
        ELSE indexLoop([job      |-> readSegments(r.job, memberSource(file, name),
                                                  memberLines(Archives[file], name)),
                        resolved |-> 1,
                        parsed   |-> Parsed(r, file, name),
                        calls    |-> Called(r, name)], file)

RECURSIVE allMembers(_, _, _)
\* for (auto &member : archive) readSegments(in, name);
allMembers(r, file, members) ==
    IF members = <<>> \/ r.job.error # "none" THEN r
    ELSE allMembers([r EXCEPT !.job = readSegments(r.job, Head(members).source,
                                                   Head(members).lines),
                              !.parsed = Parsed(r, file, Head(members).name),
                              !.calls = Called(r, Head(members).name)],
                    file, Tail(members))

addLibOrObject(r, file, onlyLibs) ==
    LET r0 == [r EXCEPT !.resolved = 0,
                        !.calls = Append(@, [file |-> file, members |-> <<>>])]
    IN  IF ~isArchive(file) /\ ~onlyLibs
        THEN IF file \in DOMAIN Objects
             THEN [r0 EXCEPT !.job = readSegments(r.job, file, Objects[file])]
             ELSE [r0 EXCEPT !.job = Fail(r.job, "can not open")]
        ELSE IF ~isArchive(file) THEN r0
        ELSE IF ~Archives[file].hasIndex THEN allMembers(r0, file, directory(Archives[file]))
        ELSE indexLoop(r0, file)

RECURSIVE sweep(_, _, _)
\* for (g = startGroup; g < i; ++g) resolved += addLibOrObject(argv[g], true) > 0;
\* files is argv[startGroup .. i-1], n the number of calls that returned > 0
sweep(r, files, n) ==
    IF files = <<>> \/ r.job.error # "none" THEN [r EXCEPT !.resolved = n]
    ELSE LET r1 == addLibOrObject(r, Head(files), TRUE)
         IN  sweep(r1, Tail(files), n + (IF r1.resolved > 0 THEN 1 ELSE 0))

\* argv[startGroup .. i-1] with argv counted from 0, i the token under work
groupSpan(d) == SubSeq(d.argv, d.startGroup + 1, d.i)

InitDriver ==
    /\ job = NewJob
    /\ pc = "args"
    /\ cur = NewCur("")
    /\ nunits = 0
    /\ nlines = 0
    /\ hist = [op |-> "none", parsed |-> {}, calls |-> <<>>]
    /\ drv = NoDrv

\* the next token is "--start-group": startGroup = i + 1
DrvStartGroup ==
    /\ pc = "args"
    /\ drv.i = Len(drv.argv)
    /\ Len(drv.argv) < MaxArgs
    /\ drv' = [drv EXCEPT !.argv = Append(@, "-("), !.i = drv.i + 1, !.startGroup = drv.i + 1]
    /\ hist' = [hist EXCEPT !.op = "start-group"]
    /\ UNCHANGED <<job, pc, cur, nunits, nlines>>

\* the next token is "--end-group": without a start group main returns 1,
\* else the sweeps begin (i stays on the token until they are over)
DrvEndGroup ==
    /\ pc = "args"
    /\ drv.i = Len(drv.argv)
    /\ Len(drv.argv) < MaxArgs
    /\ IF drv.startGroup < 0
       THEN /\ drv' = [drv EXCEPT !.argv = Append(@, "-)"), !.exit = 1,
                                  !.error = "missing start-group"]
            /\ pc' = "exit"
       ELSE /\ drv' = [drv EXCEPT !.argv = Append(@, "-)")]
            /\ pc' = "sweep"
    /\ hist' = [hist EXCEPT !.op = "end-group token"]
    /\ UNCHANGED <<job, cur, nunits, nlines>>

\* one turn of the do-while loop: a sweep over the span; the loop is left,
\* and the token done, when no call resolved anything
DrvSweep ==
    /\ pc = "sweep"
    /\ \E r \in {sweep([job |-> job, resolved |-> 0, parsed |-> hist.parsed,
                        calls |-> <<>>], groupSpan(drv), 0)} :
           /\ job' = r.job
           /\ pc' = IF r.job.error # "none" THEN "exit"
                    ELSE IF r.resolved = 0 THEN "args" ELSE "sweep"
           /\ drv' = IF r.job.error # "none" THEN [drv EXCEPT !.exit = 1, !.error = r.job.error]
                     ELSE IF r.resolved = 0 THEN [drv EXCEPT !.i = @ + 1] ELSE drv
           /\ hist' = [op |-> IF r.job.error = "none" /\ r.resolved = 0 THEN "end-group"
                              ELSE "sweep",
                       parsed |-> r.parsed, calls |-> r.calls]
    /\ UNCHANGED <<cur, nunits, nlines>>

\* the next token is "-textseg": the word behind it is read into startAddr,
\* and `continue` goes on to that word as the next token
DrvTextseg ==
    /\ pc = "args"
    /\ drv.i = Len(drv.argv)
    /\ Len(drv.argv) + 1 < MaxArgs
    /\ \E word \in TextsegArgs :
          drv' = [drv EXCEPT !.argv = @ \o <<"-textseg", word>>, !.i = @ + 1,
                             !.startAddr = hexValue(word)]
    /\ hist' = [hist EXCEPT !.op = "textseg"]
    /\ UNCHANGED <<job, pc, cur, nunits, nlines>>

\* the next token is a file: objectFile.addLibOrObject(argv[i]); it is the
\* word left behind by "-textseg" if there is one, else a new token
DrvFile ==
    /\ pc = "args"
    /\ drv.i < Len(drv.argv) \/ Len(drv.argv) < MaxArgs
    /\ \E file \in (IF drv.i < Len(drv.argv) THEN {drv.argv[drv.i + 1]}
                    ELSE Tokens \ GroupTokens) :
          \E r \in {addLibOrObject([job |-> job, resolved |-> 0, parsed |-> hist.parsed,
                                   calls |-> <<>>], file, FALSE)},
             argv \in {IF drv.i < Len(drv.argv) THEN drv.argv ELSE Append(drv.argv, file)} :
              /\ job' = r.job
              /\ pc' = IF r.job.error # "none" THEN "exit" ELSE "args"
              /\ drv' = IF r.job.error # "none"
                        THEN [drv EXCEPT !.argv = argv, !.exit = 1, !.error = r.job.error]
                        ELSE [drv EXCEPT !.argv = argv, !.i = @ + 1]
              /\ hist' = [op |-> "file", parsed |-> r.parsed, calls |-> r.calls]
    /\ UNCHANGED <<cur, nunits, nlines>>

\* after the loop with startGroup.has_value(): main returns 1
DrvUnterminated ==
    /\ pc = "args"
    /\ drv.i = Len(drv.argv)
    /\ Len(drv.argv) > 0
    /\ drv.startGroup >= 0
    /\ drv' = [drv EXCEPT !.exit = 1, !.error = "start-group not terminated"]
    /\ pc' = "exit"
    /\ hist' = [hist EXCEPT !.op = "return"]
    /\ UNCHANGED <<job, cur, nunits, nlines>>

\* after the loop: link() and print(); an exception ends in std::exit(1)
DrvLink ==
    /\ pc = "args"
    /\ drv.i = Len(drv.argv)
    /\ Len(drv.argv) > 0
    /\ drv.startGroup < 0
    /\ job' = link(job)
    /\ drv' = [drv EXCEPT !.exit = IF job'.error = "none" THEN 0 ELSE 1, !.error = job'.error]
    /\ pc' = "exit"
    /\ hist' = [hist EXCEPT !.op = "link"]
    /\ UNCHANGED <<cur, nunits, nlines>>

NextDriver ==
    \/ DrvStartGroup \/ DrvEndGroup \/ DrvSweep \/ DrvTextseg \/ DrvFile
    \/ DrvUnterminated \/ DrvLink

SpecDriver == InitDriver /\ [][NextDriver]_vars

\* the member named by the first line of the index whose ident is in U
FirstNamed(index, U) ==
    LET K == {k \in 1..Len(index) : index[k].ident \in U}
    IN  IF K = {} THEN "" ELSE index[CHOOSE k \in K : \A l \in K : k <= l].member

\* C3: a member of an archive with __SYMTAB_INDEX is parsed only when it is
\* the member named by the first index line whose ident is unresolved at that
\* moment.
C3_IndexedSelection ==
    \A s \in hist.parsed :
       Archives[s.file].hasIndex =>
          s.member = FirstNamed(Archives[s.file].index, s.unresolved)

\* `a.o libx.a` linked: m1.o was parsed for f, m2.o was not, g is not defined
C3_Witness ==
    /\ pc = "exit" /\ drv.exit = 0 /\ drv.argv = <<"a.o", "libx.a">>
    /\ hist.parsed = {[file |-> "libx.a", member |-> "m1.o", unresolved |-> {"f"}]}
    /\ "f" \in DOMAIN job.symTab /\ "g" \notin DOMAIN job.symTab

\* the token "--end-group" has just been done
EndGroupDone == pc = "args" /\ hist.op = "end-group"

\* C4: when an --end-group token is done, no index line of an indexed archive
\* of the span names an unresolved ident.
C4_GroupFixedPoint ==
    EndGroupDone =>
       \A g \in (drv.startGroup + 1)..(drv.i - 1) :
          (isArchive(drv.argv[g]) /\ Archives[drv.argv[g]].hasIndex) =>
             \A k \in 1..Len(Archives[drv.argv[g]].index) :
                Archives[drv.argv[g]].index[k].ident \notin job.unresolved

\* the same for the idents that can be defined globally (not beginning with '.')
GroupFixedPointGlobals ==
    EndGroupDone =>
       \A g \in (drv.startGroup + 1)..(drv.i - 1) :
          (isArchive(drv.argv[g]) /\ Archives[drv.argv[g]].hasIndex) =>
             \A k \in 1..Len(Archives[drv.argv[g]].index) :
                Archives[drv.argv[g]].index[k].ident \notin job.unresolved \ DotIdents

EndWithoutStart ==
    \E n \in 1..Len(drv.argv) :
       drv.argv[n] = "-)" /\ \A m \in 1..(n - 1) : drv.argv[m] # "-("

StartWithoutEnd ==
    \E n \in 1..Len(drv.argv) :
       drv.argv[n] = "-(" /\ \A m \in (n + 1)..Len(drv.argv) : drv.argv[m] # "-)"

GroupErrors == {"missing start-group", "start-group not terminated"}

\* C5: a group error is raised only for an --end-group without an earlier
\* --start-group or a --start-group without a later --end-group; a run with
\* matching group tokens goes on to placement and emission.
C5_GroupRun ==
    (pc = "exit" /\ drv.error \in GroupErrors) => (EndWithoutStart \/ StartWithoutEnd)

\* `a.o -( X Y -)`: the group resolved f and g, and main returned 1
GroupExample ==
    /\ pc = "exit" /\ drv.argv = <<"a.o", "-(", "X.a", "Y.a", "-)">>
    /\ {"f", "g"} \subseteq DOMAIN job.symTab /\ job.unresolved = {}
    /\ drv.exit = 1 /\ drv.error = "start-group not terminated"

\* main() has returned from a link() that raised no exception
Linked == pc = "exit" /\ hist.op = "link" /\ job.error = "none"

\* C11: at placement text.baseAddr is the start address given with -textseg
\* (0 without one), and a run `-textseg <addr> file...` gets as far as link().
C11_TextsegBase ==
    /\ Linked => Seg(job, 0).baseAddr = drv.startAddr
    /\ (pc = "exit" /\ drv.error = "can not open") =>
          ~(\E n \in 2..Len(drv.argv) : n = drv.i + 1 /\ drv.argv[n - 1] = "-textseg")

\* `-textseg 1000`: startAddr is 0x1000, and main() gave up on the file "1000"
TextsegExample ==
    /\ pc = "exit" /\ drv.argv = <<"-textseg", "1000">> /\ drv.startAddr = 4096
    /\ drv.exit = 1 /\ drv.error = "can not open"

\* a link after -textseg: startAddr is set, text.baseAddr is 0
TextsegIgnored ==
    Linked /\ drv.startAddr = 10 /\ Seg(job, 0).baseAddr = 0 /\ size(Seg(job, 0)) = 4

\* the names of the members of an archive in the order of the archive file,
\* and in the order of the directory
fileNames(ar) == [k \in 1..Len(ar.members) |-> ar.members[k].name]
directoryNames(ar) == [k \in 1..Len(ar.members) |-> directory(ar)[k].name]

\* the calls of the last step on an archive without / with __SYMTAB_INDEX
PlainCalls ==
    {n \in 1..Len(hist.calls) : isArchive(hist.calls[n].file)
                                   /\ ~Archives[hist.calls[n].file].hasIndex}
IndexedCalls ==
    {n \in 1..Len(hist.calls) : isArchive(hist.calls[n].file)
                                   /\ Archives[hist.calls[n].file].hasIndex}

\* C13: a call of addLibOrObject on an archive without __SYMTAB_INDEX parses
\* every member exactly once, in the order of the archive file.
C13_ArchiveOrder ==
    job.error = "none" =>
       \A n \in PlainCalls : hist.calls[n].members = fileNames(Archives[hist.calls[n].file])

\* every member exactly once, in the order of the member names
MembersInNameOrder ==
    job.error = "none" =>
       \A n \in PlainCalls :
          hist.calls[n].members = directoryNames(Archives[hist.calls[n].file])

\* `V.a` (v2.o with k first in the file, then v1.o with h) linked: h is at 0
ArchiveOrderExample ==
    /\ Linked /\ drv.argv = <<"V.a">>
    /\ job.symTab["h"].value = U64(0) /\ job.symTab["k"].value = U64(4)

\* the step that processes an archive named by two tokens in a row for the
\* second time
SecondMention ==
    /\ hist.op = "file" /\ hist'.op = "file" /\ Len(drv'.argv) = Len(drv.argv) + 1
    /\ drv'.argv[Len(drv'.argv)] = drv.argv[Len(drv.argv)]
    /\ isArchive(drv.argv[Len(drv.argv)])

\* C14: processing an archive a second time in a row leaves the link job as
\* it is and parses no member.
C14_ArchiveIdempotent ==
    [][SecondMention => (job' = job /\ \A n \in 1..Len(hist'.calls) :
                                          hist'.calls[n].members = <<>>)]_vars

\* the same for the archives with __SYMTAB_INDEX
IndexedArchiveIdempotent ==
    [][(SecondMention /\ Archives[drv.argv[Len(drv.argv)]].hasIndex) =>
          (job' = job /\ \A n \in 1..Len(hist'.calls) : hist'.calls[n].members = <<>>)]_vars

\* `Z.a Z.a`: z1.o was parsed again
ArchiveTwiceExample ==
    /\ drv.argv = <<"Z.a", "Z.a">> /\ pc = "args" /\ job.error = "none"
    /\ hist.calls = <<[file |-> "Z.a", members |-> <<"z1.o">>]>>

NoDuplicates(q) == \A a, b \in 1..Len(q) : a # b => q[a] # q[b]

\* C15: within one call the index loop hands no member to the parser twice.
C15_IndexLoopOnce ==
    \A n \in IndexedCalls : NoDuplicates(hist.calls[n].members)

\* the members the index names for an absolute symbol
AbsoluteMembers(ar) == {ar.index[k].member : k \in {l \in 1..Len(ar.index) : ar.index[l].kind = "A"}}

\* the same for the members that the index names for T, D and B symbols only
IndexLoopOnceRelocatable ==
    \A n \in IndexedCalls :
       \A a, b \in 1..Len(hist.calls[n].members) :
          (a # b /\ hist.calls[n].members[a] = hist.calls[n].members[b]) =>
             hist.calls[n].members[a] \in AbsoluteMembers(Archives[hist.calls[n].file])

\* `W.a libx.a`: m3.o was selected twice for c, the second time ending the run
IndexLoopTwiceExample ==
    /\ pc = "exit" /\ drv.argv = <<"W.a", "libx.a">>
    /\ hist.calls = <<[file |-> "libx.a", members |-> <<"m3.o", "m3.o">>]>>
    /\ drv.error = "multiple definition" /\ "c" \in job.unresolved

---------------------------------------------------------------------------
(* SpecPatch: Segment::patchBytes on a segment of PatchSize bytes          *)

MaxPatch == 9

PatchBytes == <<1, 2, 3, 4, 5, 6, 7, 8, 9, 10, 11, 12>>
\* 0xDEADBEEFCAFEBABE
BigValue == <<190, 186, 254, 202, 239, 190, 173, 222>>
PatchValues == {BigValue, U64(48879), U64(1), U64(-4)}

PatchSegment(base) ==
    LET r == byteLine(NewJob, [NewCur("a.o") EXCEPT !.seg = 0], FALSE, 0, PatchBytes)
    IN  setBaseAddr(Seg(r.job, 0), base)

InitPatch ==
    /\ \E base \in {0, 8}, off \in {0, 2}, n \in 0..MaxPatch, value \in PatchValues :
          /\ job = SetSeg(NewJob, 0, PatchSegment(base))
          /\ hist = [op |-> "call", addr |-> base + off, numBytes |-> n, value |-> value,
                     before |-> PatchSegment(base).memory]
    /\ pc = "call"
    /\ cur = NewCur("a.o")
    /\ nunits = 1
    /\ nlines = 1
    /\ drv = NoDrv

Patch ==
    /\ pc = "call"
    /\ job' = SetSeg(job, 0, patchBytes(Seg(job, 0), hist.addr, hist.numBytes, hist.value))
    /\ pc' = "patched"
    /\ UNCHANGED <<cur, nunits, nlines, hist, drv>>

NextPatch == Patch

SpecPatch == InitPatch /\ [][NextPatch]_vars

\* (value >> 8k) & 0xFF of a 64-bit value
ShiftedByte(value, k) == IF k >= 8 THEN 0 ELSE value[k + 1]

PatchSite == (hist.addr - Seg(job, 0).baseAddr)..(hist.addr - Seg(job, 0).baseAddr + hist.numBytes - 1)

PatchFrame ==
    /\ DOMAIN Seg(job, 0).memory = DOMAIN hist.before \cup PatchSite
    /\ \A o \in DOMAIN hist.before \ PatchSite : Seg(job, 0).memory[o] = hist.before[o]

---------------------------------------------------------------------------
(* SpecFix: one object with 12 bytes of text, 8 of data, 8 of bss, at most *)
(* one symbol f and one fixup, then link()                                 *)

FixSegments == {"text", "data"}
FixAddrs == {0, 8}
FixOffsetBits == {0, 8}
FixNumBits == {8, 16, 32, 56, 64}
FixIdents == {"f", "[text]", "[data]", "[bss]"}
FixDisplaces == {0, -4, 2}
FixSymbols ==
    {<<>>} \cup {<<SymLine(k, "f", v)>> : k \in {"T", "D", "B", "A"},
                                          v \in {U64(0), U64(4), U64(6), BigValue}}

FixUnit(syms, fix) ==
    <<TextLine(4), Bytes4, Bytes4, Bytes4, DataLine(8), Bytes4, Bytes4, BssLine(8, 8),
      SymtabLine>> \o syms \o <<FixupsLine, fix>>

InitFix ==
    /\ \E syms \in FixSymbols, s \in FixSegments, a \in FixAddrs, o \in FixOffsetBits,
          n \in FixNumBits, k \in FixKinds, id \in FixIdents, d \in FixDisplaces :
          job = readSegments(NewJob, "a.o", FixUnit(syms, FixLine(s, a, o, n, k, id, d)))
    /\ pc = "parsed"
    /\ cur = NewCur("a.o")
    /\ nunits = 1
    /\ nlines = 0
    /\ hist = NoHist
    /\ drv = NoDrv

NextFix == Place \/ Relocate

SpecFix == InitFix /\ [][NextFix]_vars

\* all recorded fixups as <<ident, entry>> pairs
AllFixups(j) ==
    UNION {{<<id, j.fixables[id][n]>> : n \in 1..Len(j.fixables[id])} : id \in DOMAIN j.fixables}

\* the n low bytes of a 64-bit value
LowBytes(v, n) == SubSeq(v, 1, n)

\* the site S and the target address V of a fixup, as the claim defines them
SiteOf(id, fe) == U64(Seg(job, IF fe.segment = "text" THEN 0 ELSE 1).baseAddr + fe.addr)
TargetOf(id, fe) ==
    Add64(fe.displace,
          CASE id = "[text]" -> U64(Seg(job, 0).baseAddr)
            [] id = "[data]" -> U64(Seg(job, 1).baseAddr)
            [] id = "[bss]"  -> U64(Seg(job, 2).baseAddr)
            [] OTHER -> job.symTab[id].value)

\* two's complement of the signed quotient (V - S) / 4: the difference is
\* negative when V < S, and then the two bits shifted in are ones
SignedQuotient(V, S) ==
    LET q == Div4(Sub64(V, S))
    IN  IF Less64(V, S) THEN [q EXCEPT ![8] = @ + 192] ELSE q

ExpectedField(id, fe) ==
    CASE fe.kind = "relative" -> SignedQuotient(TargetOf(id, fe), SiteOf(id, fe))
      [] fe.kind = "w0" -> Word16(TargetOf(id, fe), 0)
      [] fe.kind = "w1" -> Word16(TargetOf(id, fe), 1)
      [] fe.kind = "w2" -> Word16(TargetOf(id, fe), 2)
      [] fe.kind = "w3" -> Word16(TargetOf(id, fe), 3)
      [] OTHER -> TargetOf(id, fe)

Misaligned(id, fe) ==
    fe.kind = "relative" /\ Mod4(Sub64(TargetOf(id, fe), SiteOf(id, fe))) # 0

Applicable(id, fe) ==
    fe.segment \in {"text", "data"} /\ (id \in Pseudo \/ id \in DOMAIN job.symTab)

\* C7: the value handed to patchBytes, cut to numBytes bytes, is the two's
\* complement of the signed quotient (V - S)/4 for `relative` (the link is
\* aborted when V - S is no multiple of 4), (V >> 16k) & 0xFFFF for wk, and V
\* for `absolute`.
C7_FixupValue ==
    /\ pc = "placed" =>
          \A p \in AllFixups(job) :
             (Applicable(p[1], p[2]) /\ ~Misaligned(p[1], p[2])) =>
                LowBytes(fixValue(job, p[1], p[2]), p[2].numBytes) =
                   LowBytes(ExpectedField(p[1], p[2]), p[2].numBytes)
    /\ (pc = "done" /\ hist.op = "relocate") =>
          \A p \in AllFixups(job) :
             (Applicable(p[1], p[2]) /\ Misaligned(p[1], p[2])) =>
                job.error = "not a multiple of 4"

\* the same for fields of at most 7 bytes
FixupValueUpTo7 ==
    /\ pc = "placed" =>
          \A p \in AllFixups(job) :
             (Applicable(p[1], p[2]) /\ ~Misaligned(p[1], p[2]) /\ p[2].numBytes <= 7) =>
                LowBytes(fixValue(job, p[1], p[2]), p[2].numBytes) =
                   LowBytes(ExpectedField(p[1], p[2]), p[2].numBytes)
    /\ (pc = "done" /\ hist.op = "relocate") =>
          \A p \in AllFixups(job) :
             (Applicable(p[1], p[2]) /\ Misaligned(p[1], p[2])) =>
                job.error = "not a multiple of 4"

\* the offsets a fixup patches, relative to the base of its segment
PatchedOffsets(fe) == (fe.addr + fe.offset)..(fe.addr + fe.offset + fe.numBytes - 1)

\* the step of the fixup loop
FixupLoop == pc = "placed" /\ pc' = "done"

\* C12: the fixup loop allocates no bytes: every segment holds the same
\* offsets 0..size-1 after the loop as after the placement padding.
C12_NoAllocation ==
    [][FixupLoop =>
          \A n \in 0..2 :
             /\ DOMAIN Seg(job', n).memory = DOMAIN Seg(job, n).memory
             /\ DOMAIN Seg(job', n).memory = 0..(size(Seg(job', n)) - 1)]_vars

\* the same for the runs where every patched offset holds a byte before the loop
NoAllocationInside ==
    [][(FixupLoop /\ \A p \in AllFixups(job) :
                        fixSegment(p[2]) >= 0 =>
                           PatchedOffsets(p[2]) \subseteq
                              DOMAIN Seg(job, fixSegment(p[2])).memory) =>
          \A n \in 0..2 : DOMAIN Seg(job', n).memory = DOMAIN Seg(job, n).memory]_vars

\* a byte patched in data at offset 8, behind the 8 bytes the segment held
PatchBehindEnd ==
    /\ pc = "done" /\ job.error = "none" /\ hist.op = "relocate"
    /\ DOMAIN Seg(job, 1).memory = 0..8

---------------------------------------------------------------------------
(* SpecReloc: one object with a word of text and a word of data, some      *)
(* SYMTAB lines, some FIXUPS lines, then link()                            *)

MaxRelocLines == 4

RelocSymbols == {SymLine(k[1], id, U64(k[2])) :
                    k \in {<<"T", 0>>, <<"T", 2>>, <<"U", 0>>}, id \in {"f", "g"}}
RelocFixups == {FixLine(k[1], 0, 0, 16, k[2], id, 0) :
                   k \in {<<"text", "relative">>, <<"text", "absolute">>, <<"text", "bogus">>,
                          <<"bss", "absolute">>},
                   id \in {"f", "g", "[data]"}}
               \cup {FixLine("text", 0, k[1], k[2], "absolute", "f", 0) :
                        k \in {<<0, 12>>, <<0, 4>>, <<4, 16>>}}

InitReloc ==
    /\ job = readSegments(NewJob, "a.o", <<TextLine(4), Bytes4, DataLine(4), Bytes4, SymtabLine>>)
    /\ pc = "symtab"
    /\ cur = [NewCur("a.o") EXCEPT !.seg = 3]
    /\ nunits = 1
    /\ nlines = 0
    /\ hist = NoHist
    /\ drv = NoDrv

RelocSym ==
    /\ pc = "symtab"
    /\ nlines < MaxRelocLines
    /\ \E line \in RelocSymbols : job' = readLine([job |-> job, cur |-> cur], line).job
    /\ pc' = After(job', "symtab")
    /\ nlines' = nlines + 1
    /\ hist' = [op |-> "sym"]
    /\ UNCHANGED <<cur, nunits, drv>>

RelocFixupsLine ==
    /\ pc = "symtab"
    /\ pc' = "fixups"
    /\ cur' = readLine([job |-> job, cur |-> cur], FixupsLine).cur
    /\ hist' = [op |-> "FIXUPS"]
    /\ UNCHANGED <<job, nunits, nlines, drv>>

RelocFix ==
    /\ pc = "fixups"
    /\ nlines < MaxRelocLines
    /\ \E line \in RelocFixups :
          /\ job' = readLine([job |-> job, cur |-> cur], line).job
          /\ hist' = [op |-> "fix", ident |-> line.ident,
                       offsetBits |-> line.offsetBits, numBits |-> line.numBits]
    /\ pc' = After(job', "fixups")
    /\ nlines' = nlines + 1
    /\ UNCHANGED <<cur, nunits, drv>>

\* end of input: main() goes on to link()
RelocEnd ==
    /\ pc = "fixups"
    /\ pc' = "parsed"
    /\ hist' = [op |-> "end"]
    /\ UNCHANGED <<job, cur, nunits, nlines, drv>>

NextReloc == RelocSym \/ RelocFixupsLine \/ RelocFix \/ RelocEnd \/ Place \/ Relocate

SpecReloc == InitReloc /\ [][NextReloc]_vars

\* some recorded fixup targets an ident that is no pseudo ident and no key of
\* the global table
UnknownTarget == \E id \in DOMAIN job.fixables : id \notin Pseudo /\ id \notin DOMAIN job.symTab

\* no other error of link() can occur: every global symbol has kind T, D, B
\* or A, every fixup is in text or data, of a known kind, and a relative one
\* with a known target is a multiple of 4 away from it
NoOtherLinkError ==
    /\ \A id \in DOMAIN job.symTab : job.symTab[id].kind \in {"T", "D", "B", "A"}
    /\ \A p \in AllFixups(job) :
          /\ p[2].segment \in {"text", "data"}
          /\ p[2].kind \in {"relative", "absolute", "w0", "w1", "w2", "w3"}
          /\ (p[1] \in Pseudo \/ p[1] \in DOMAIN job.symTab) => ~Misaligned(p[1], p[2])

LinkReturned == pc = "done"

C9_WitnessFailed ==
    LinkReturned /\ job.error = "unresolved symbol" /\ "g" \in DOMAIN job.fixables

\* the fixup that the last line of #FIXUPS recorded
LastFixup == job'.fixables[hist'.ident][Len(job'.fixables[hist'.ident])]

\* C19: a line of #FIXUPS whose offset or width in bits is not a multiple of
\* 8 ends the run with an error, and a fixup that is recorded has its offset
\* and its width in bytes equal to an eighth of the bits of its line.
C19_ExactBytes ==
    [][hist'.op = "fix" =>
          /\ (hist'.offsetBits % 8 # 0 \/ hist'.numBits % 8 # 0) => job'.error # "none"
          /\ job'.error = "none" => /\ LastFixup.offset * 8 = hist'.offsetBits
                                    /\ LastFixup.numBytes * 8 = hist'.numBits]_vars

\* the same with the code's divisors: the offset a multiple of 8, the width
\* a multiple of 4
ExactBytesWidthBy4 ==
    [][hist'.op = "fix" =>
          /\ (hist'.offsetBits % 8 # 0 \/ hist'.numBits % 4 # 0) => job'.error = "assert"
          /\ job'.error = "none" => /\ LastFixup.offset * 8 = hist'.offsetBits
                                    /\ LastFixup.numBytes = hist'.numBits \div 8]_vars

\* "text 0x0 0 4 absolute f" is recorded with a width of 0 bytes
FixupOfNoBytes ==
    /\ pc = "fixups" /\ job.error = "none"
    /\ hist.op = "fix" /\ hist.numBits = 4
    /\ "f" \in DOMAIN job.fixables
    /\ job.fixables["f"][Len(job.fixables["f"])].numBytes = 0


\* no ident beginning with '.' is in the global table, the local table or
\* the unresolved set
DotFree ==
    \A id \in DotIdents :
        id \notin DOMAIN job.symTab /\ id \notin DOMAIN job.localSymTab /\ id \notin job.unresolved

\* C20: a SYMTAB entry whose ident begins with '.' changes neither the global
\* table nor the local table nor the unresolved set, whatever its kind, and
\* no such ident is ever in one of the three.
C20_DotDiscarded ==
    [][/\ (hist'.op = "sym" /\ beginsWithDot(hist'.ident)) =>
              /\ job'.symTab = job.symTab
              /\ job'.localSymTab = job.localSymTab
              /\ job'.unresolved = job.unresolved
       /\ DotFree']_vars

\* the same for the two tables, and for the unresolved set under the kinds
\* other than U, T, D and B
DotDiscardedFromTables ==
    [][/\ (hist'.op = "sym" /\ beginsWithDot(hist'.ident)) =>
              /\ job'.symTab = job.symTab
              /\ job'.localSymTab = job.localSymTab
              /\ hist'.kind \notin {"U", "T", "D", "B"} => job'.unresolved = job.unresolved
       /\ \A id \in DotIdents :
              id \notin DOMAIN job'.symTab /\ id \notin DOMAIN job'.localSymTab]_vars

\* "U .l 0x0" has put .l into the unresolved set
DotUnresolved ==
    /\ hist.op = "sym" /\ hist.kind = "U" /\ hist.ident = ".l"
    /\ job.error = "none"
    /\ ".l" \in job.unresolved


====
